---------------------------- MODULE Spec2Model ----------------------------
(***************************************************************************)
(* State-machine model of the IAC valve tester firmware                    *)
(* (src/iac_tester/iac_tester.ino): the PCM edge interrupt handler, the    *)
(* circular signal log, the step decoder run from the main loop, the       *)
(* stepper driver and the request handlers that read or reset them.        *)
(*                                                                         *)
(* Two execution contexts share the state: the interrupt handler           *)
(* pcmPinChangeISR, which runs to completion whenever interrupts are       *)
(* enabled, and the main loop, whose position is pc:                       *)
(*   "client"   server.handleClient() serves at most one request           *)
(*   "download" handleLogDownload is iterating over its snapshot           *)
(*   "monitor"  monitorPcmSignals: idle check and test of the ISR flag     *)
(*   "decode"   monitorPcmSignals: decode of the newest log entry          *)
(*   "drive"    the stepper movement part of loop()                        *)
(***************************************************************************)
EXTENDS Integers, Sequences, FiniteSets, TLC

(***************************************************************************)
(* Program constants and model bounds                                      *)
(***************************************************************************)

\* LOG_BUFFER_SIZE is 10000 in the source; the ring is scaled down here to
\* LogSlots slots (see LOG_BUFFER_SIZE below).
LogSlots == 2

PCM_IDLE_TIMEOUT == 500

\* most edges logged in one run with the full 16-pattern input alphabet
MaxEdgesAll == 2

\* most edges logged in one run with one of the small input alphabets
MaxEdges == 5

\* most edges logged beyond the capacity of the log in the runs about the log
MaxOverflow == 2

\* the clock stops advancing at MaxTime
MaxTime == 1

\* most one-step moves requested in one run about the log
MaxSteps == 1

\* most driver steps executed in one run
MaxDriveSteps == 5

\* largest step count of a fixed move request
MaxMove == 3

\* most edges logged in one run about the idle timeout
MaxIdleEdges == 2

\* most pin changes in a run about the reads of the idle test
MaxRaceEdges == 3

\* most pin changes in a run about the reads of a status poll: fewer than
\* the log has slots, so that the write index never laps the cursor
MaxPollEdges == 1

\* most pin changes beyond the 10 entries of one status poll, in the runs
\* about that limit
MaxCapOver == 1

\* how far below 0 and above 500 the requested step delays go
MaxDelayOver == 2

\* handleStatus sends at most this many log entries
StatusMaxEntries == 10

\* the longest continuous move, in ms, that the control page allows
SafetyTimeoutMs == 30000

Patterns == 0..15

\* the four patterns of STEP_SEQUENCE, as 4-bit values
PhasePatterns == {5, 6, 9, 10}

\* hold, coast and two phases
HoldCoastPatterns == {0, 5, 6, 15}

\* two phases, for the runs that are about the log
LogPatterns == {5, 6}

\* two phases, for the runs about the ring indices, clears and polls
RingPatterns == {9, 10}

\* two phases, for the runs about the idle timeout
IdlePatterns == {6, 10}

\* two adjacent phases, for the runs about the reads of the idle test
RacePatterns == {5, 9}

\* two adjacent phases, for the runs about the reads of a status poll
PollPatterns == {6, 9}

\* two phases, for the runs about the 10-entry limit of a status poll
CapPatterns == {5, 10}

\* the monitored pins held at the brake pattern, for the runs about the driver
DriverPatterns == {15}

Bit(v, k) == (v \div (2 ^ k)) % 2

VARIABLES
  \* stepper driver
  currentStep, stepDelayMs, targetSteps, stepDirection, motorEnabled, isMoving,
  totalStepsTaken, youStepPosition, stby, motorOut,
  \* circular signal log
  signalLog, logHead, logTail, logCount, logOverflow,
  \* PCM monitor
  currentPcmState, prevPcmState, pcmStateChanged, lastPcmChange,
  pcmStepIndex, pcmDirection, pcmStepPosition,
  \* main loop position, locals of the call under way (handleLogDownload,
  \* handleStatus, the idle test of monitorPcmSignals), the response sent by
  \* handleClient in this iteration of loop(), and handleStatus's static cursor
  pc, dl, response, lastSentHead,
  \* environment: millis() and the patterns the monitored pins can show
  now, inputs,
  \* history: entries appended since the last clear, number of edges logged,
  \* a decoder fed every appended pattern, patterns decoded so far
  appended, edges, refIndex, refPos, fed,
  \* history: for each slot the number of the edge that wrote it, the number of
  \* edges logged at the last clear, the edge numbers that status polls have
  \* returned, what the idle test of this iteration's monitorPcmSignals saw,
  \* and the last move request with the steps executed since
  slotSeq, clearSeq, delivered, poll, moveReq

\* The capacity of the log: LogSlots, and in the runs about the 10-entry
\* limit of a status poll that many slots more than the limit, so that more
\* than 10 entries can be appended between two polls without a lap.
LOG_BUFFER_SIZE ==
  IF inputs = CapPatterns THEN StatusMaxEntries + LogSlots ELSE LogSlots

driverVars == <<currentStep, stepDelayMs, targetSteps, stepDirection, motorEnabled,
                isMoving, totalStepsTaken, youStepPosition, stby, motorOut>>
logVars == <<signalLog, logHead, logTail, logCount, logOverflow>>
isrVars == <<currentPcmState, pcmStateChanged, lastPcmChange>>
decoderVars == <<prevPcmState, pcmStepIndex, pcmDirection, pcmStepPosition>>
mainVars == <<pc, dl, response, lastSentHead>>
traceVars == <<appended, edges, refIndex, refPos, fed, slotSeq, clearSeq, delivered>>
histVars == <<traceVars, poll, moveReq>>
vars == <<driverVars, logVars, isrVars, decoderVars, mainVars, now, inputs, histVars>>

(***************************************************************************)
(* Tables                                                                  *)
(***************************************************************************)

\* STEP_SEQUENCE[p] as <<AIN1, AIN2, BIN1, BIN2>>
STEP_SEQUENCE ==
  [p \in 0..3 |->
     CASE p = 0 -> <<1, 0, 1, 0>>
       [] p = 1 -> <<0, 1, 1, 0>>
       [] p = 2 -> <<0, 1, 0, 1>>
       [] p = 3 -> <<1, 0, 0, 1>>]

\* the lookup with the entries of patterns 9 and 10 exchanged
STEP_LOOKUP_Swapped ==
  [s \in Patterns |->
     CASE s = 5 -> 0
       [] s = 6 -> 1
       [] s = 9 -> 2
       [] s = 10 -> 3
       [] OTHER -> -1]

STEP_LOOKUP ==
  [s \in Patterns |->
     CASE s = 5 -> 0
       [] s = 6 -> 1
       [] s = 9 -> 3
       [] s = 10 -> 2
       [] OTHER -> -1]

\* the 4-bit pattern of four pin levels <<A1, A2, B1, B2>>, A1 in bit 0
PatternOf(out) == out[1] + 2 * out[2] + 4 * out[3] + 8 * out[4]

\* a zero-initialised SignalLog slot
ZeroEntry ==
  [timestamp |-> 0, pcmA1 |-> 0, pcmA2 |-> 0, pcmB1 |-> 0, pcmB2 |-> 0, iacActive |-> 0]

NoDownload == [active |-> FALSE]

NoResponse == [kind |-> "none"]

OkResponse == [kind |-> "ok"]

NoPoll == [idle |-> FALSE, pending |-> FALSE, dir |-> 0, pos |-> 0, idx |-> -1]

\* a decoder that has seen no pattern yet
NoDecoder == [idx |-> -1, dir |-> 0, pos |-> 0]

\* In seen, moveReq keeps a decoder fed the pattern that each step executed
\* since the request put on the outputs (the outputs wired back to the
\* monitored inputs: a HIGH output pulls its input LOW, which the ISR reads
\* inverted); in was, the kind of the move a request interrupted.
\* moveReq: the last move or stop request (kind, its argument; for a stop the
\* steps that were left and, in was, the kind of the move it interrupted),
\* the counters, phase and instant at the request, the steps executed since
NoMove ==
  [kind |-> "none", arg |-> 0, was |-> "none", ticks |-> 0, total0 |-> 0, pos0 |-> 0,
   step0 |-> 0, t0 |-> 0, seen |-> NoDecoder]

\* {"ok":true} of handleReset and of handleSettings, told apart by the handler
ResetResponse == [kind |-> "ok", handler |-> "reset"]

SettingsResponse(hasDelay, delay) ==
  [kind |-> "ok", handler |-> "settings", hasDelay |-> hasDelay, delay |-> delay]

(***************************************************************************)
(* Initial state: the globals' initialisers and setup()                    *)
(***************************************************************************)

InitWith(alphabets) ==
  /\ currentStep = 0
  /\ stepDelayMs = 20
  /\ targetSteps = 0
  /\ stepDirection = 1
  /\ motorEnabled = FALSE
  /\ isMoving = FALSE
  /\ totalStepsTaken = 0
  /\ youStepPosition = 0
  /\ stby = 0
  /\ motorOut = <<0, 0, 0, 0>>
  /\ inputs \in alphabets
  /\ signalLog = [i \in 0..(LOG_BUFFER_SIZE - 1) |-> ZeroEntry]
  /\ logHead = 0
  /\ logTail = 0
  /\ logCount = 0
  /\ logOverflow = FALSE
  /\ currentPcmState \in inputs
  /\ prevPcmState = currentPcmState
  /\ pcmStateChanged = FALSE
  /\ lastPcmChange = 0
  /\ pcmStepIndex = -1
  /\ pcmDirection = 0
  /\ pcmStepPosition = 0
  /\ pc = "client"
  /\ dl = NoDownload
  /\ response = NoResponse
  /\ now = 0
  /\ appended = <<>>
  /\ edges = 0
  /\ refIndex = -1
  /\ refPos = 0
  /\ fed = <<>>
  /\ lastSentHead = 0
  /\ slotSeq = [i \in 0..(LOG_BUFFER_SIZE - 1) |-> 0]
  /\ clearSeq = 0
  /\ delivered = <<>>
  /\ poll = NoPoll
  /\ moveReq = NoMove

(***************************************************************************)
(* Step decoder: the direction detection of monitorPcmSignals              *)
(***************************************************************************)

\* Observe with changed direction detection, each the way a slip in the code
\* would change it. Decode(idx, dir, pos, currentState, fwd, rev, known)
\* decodes with fwd and rev as the expected neighbours and known as the test
\* for a last phase.
Decode(idx, dir, pos, currentState, fwd, rev, known) ==
  LET newStepIndex == STEP_LOOKUP[currentState]
  IN  IF newStepIndex >= 0 /\ known
        THEN IF newStepIndex = fwd
               THEN [idx |-> newStepIndex, dir |-> 1, pos |-> pos + 1]
               ELSE IF newStepIndex = rev
                      THEN [idx |-> newStepIndex, dir |-> -1, pos |-> pos - 1]
                      ELSE [idx |-> newStepIndex, dir |-> dir, pos |-> pos]
        ELSE [idx |-> newStepIndex, dir |-> dir, pos |-> pos]

\* expectedFwd without the wrap from phase 3 to phase 0
ObserveFwdNoWrap(idx, dir, pos, currentState) ==
  Decode(idx, dir, pos, currentState, idx + 1, (idx + 3) % 4, idx >= 0)

\* expectedRev as pcmStepIndex - 1, which is -1 at phase 0
ObserveRevNoWrap(idx, dir, pos, currentState) ==
  Decode(idx, dir, pos, currentState, (idx + 1) % 4, idx - 1, idx >= 0)

\* every valid phase that is not the forward neighbour counts as reverse
ObserveElseReverse(idx, dir, pos, currentState) ==
  LET newStepIndex == STEP_LOOKUP[currentState]
  IN  IF newStepIndex >= 0 /\ idx >= 0
        THEN IF newStepIndex = (idx + 1) % 4
               THEN [idx |-> newStepIndex, dir |-> 1, pos |-> pos + 1]
               ELSE [idx |-> newStepIndex, dir |-> -1, pos |-> pos - 1]
        ELSE [idx |-> newStepIndex, dir |-> dir, pos |-> pos]

\* a pattern that is no phase clears the direction
ObserveInvalidClearsDir(idx, dir, pos, currentState) ==
  LET r == Decode(idx, dir, pos, currentState, (idx + 1) % 4, (idx + 3) % 4, idx >= 0)
  IN  IF STEP_LOOKUP[currentState] < 0 THEN [r EXCEPT !.dir = 0] ELSE r

\* a decode of the last phase again clears the direction
ObserveNullClearsDir(idx, dir, pos, currentState) ==
  LET r == Decode(idx, dir, pos, currentState, (idx + 1) % 4, (idx + 3) % 4, idx >= 0)
  IN  IF STEP_LOOKUP[currentState] = idx THEN [r EXCEPT !.dir = 0] ELSE r

\* the test pcmStepIndex >= 0 left out
ObserveNoInitCheck(idx, dir, pos, currentState) ==
  Decode(idx, dir, pos, currentState, (idx + 1) % 4, (idx + 3) % 4, TRUE)

\* One decode of the 4-bit pattern currentState against the decoder state
\* (idx, dir, pos): the new pcmStepIndex, pcmDirection and pcmStepPosition.
Observe(idx, dir, pos, currentState) ==
  LET newStepIndex == STEP_LOOKUP[currentState]
      expectedFwd == (idx + 1) % 4
      expectedRev == (idx + 3) % 4
  IN  IF newStepIndex >= 0 /\ idx >= 0
        THEN IF newStepIndex = expectedFwd
               THEN [idx |-> newStepIndex, dir |-> 1, pos |-> pos + 1]
               ELSE IF newStepIndex = expectedRev
                      THEN [idx |-> newStepIndex, dir |-> -1, pos |-> pos - 1]
                      ELSE [idx |-> newStepIndex, dir |-> dir, pos |-> pos]
        ELSE [idx |-> newStepIndex, dir |-> dir, pos |-> pos]

\* the 4-bit value monitorPcmSignals rebuilds from a log entry
EntryPattern(e) == e.pcmA1 + 2 * e.pcmA2 + 4 * e.pcmB1 + 8 * e.pcmB2

\* the entry with the coil bits B1 and B2 taken from each other's position
NewEntrySwapped(newState) ==
  [timestamp |-> now,
   pcmA1 |-> Bit(newState, 0),
   pcmA2 |-> Bit(newState, 1),
   pcmB1 |-> Bit(newState, 3),
   pcmB2 |-> Bit(newState, 2),
   iacActive |-> IF isMoving THEN 1 ELSE 0]

\* the log entry the ISR writes for newState
NewEntry(newState) ==
  [timestamp |-> now,
   pcmA1 |-> Bit(newState, 0),
   pcmA2 |-> Bit(newState, 1),
   pcmB1 |-> Bit(newState, 2),
   pcmB2 |-> Bit(newState, 3),
   iacActive |-> IF isMoving THEN 1 ELSE 0]

\* most edges logged in a run, by input alphabet
Budget ==
  IF inputs = Patterns THEN MaxEdgesAll
  ELSE IF inputs \in {LogPatterns, RingPatterns} THEN LOG_BUFFER_SIZE + MaxOverflow
  ELSE IF inputs = IdlePatterns THEN MaxIdleEdges
  ELSE IF inputs = RacePatterns THEN MaxRaceEdges
  ELSE IF inputs = PollPatterns THEN MaxPollEdges
  ELSE IF inputs = CapPatterns THEN StatusMaxEntries + MaxCapOver
  ELSE MaxEdges

\* The histories are kept where they are read: the appended entries in the
\* runs about the log, the decoded patterns in the runs about the decoder.
KeepsAppended == inputs = LogPatterns

KeepsFed == inputs \in {Patterns, PhasePatterns, HoldCoastPatterns}

KeepsDelivered == inputs \in {RingPatterns, PollPatterns, CapPatterns}

KeepsMoveTime == inputs = DriverPatterns

(***************************************************************************)
(* Interrupt handler                                                       *)
(***************************************************************************)

\* the count incremented without the capacity test
AppendCountUnchecked == logCount + 1

\* the flag following the last append rather than latching
AppendOverflowToggles == logCount >= LOG_BUFFER_SIZE /\ logHead # 0

\* logCount and logOverflow after an append
AppendCount == IF logCount < LOG_BUFFER_SIZE THEN logCount + 1 ELSE logCount

AppendOverflow == IF logCount < LOG_BUFFER_SIZE THEN logOverflow ELSE TRUE

\* the tail left where it is when the oldest entry is overwritten
AppendTailStuck == logTail

\* logTail after an append
AppendTail ==
  IF logCount < LOG_BUFFER_SIZE THEN logTail ELSE (logTail + 1) % LOG_BUFFER_SIZE

\* logHead after an append
AppendHead == (logHead + 1) % LOG_BUFFER_SIZE

pcmPinChangeISR ==
  \E newState \in inputs :
    IF newState # currentPcmState
      THEN /\ edges < Budget
           /\ currentPcmState' = newState
           /\ signalLog' = [signalLog EXCEPT ![logHead] = NewEntry(newState)]
           /\ logHead' = AppendHead
           /\ logCount' = AppendCount
           /\ logOverflow' = AppendOverflow
           /\ logTail' = AppendTail
           /\ pcmStateChanged' = TRUE
           /\ lastPcmChange' = now
           /\ edges' = edges + 1
           /\ appended' = IF KeepsAppended
                             THEN Append(appended, [t |-> now, state |-> newState,
                                                    moving |-> isMoving])
                             ELSE appended
           /\ LET r == Observe(refIndex, 0, refPos, newState)
              IN  refIndex' = r.idx /\ refPos' = r.pos
           /\ slotSeq' = [slotSeq EXCEPT ![logHead] = edges + 1]
           /\ UNCHANGED <<driverVars, decoderVars, mainVars, now, inputs, fed,
                          clearSeq, delivered, poll, moveReq>>
      ELSE UNCHANGED vars

(***************************************************************************)
(* monitorPcmSignals, in two steps of the main loop                        *)
(***************************************************************************)

\* millis() - lastPcmChange > PCM_IDLE_TIMEOUT in unsigned 32-bit arithmetic:
\* a difference below zero wraps to 2^32 minus a small value, which is above
\* the timeout
UnsignedDiffAbove(a, b, limit) == IF a >= b THEN a - b > limit ELSE TRUE

\* the test made one millisecond late
IdleTimedOutLate == UnsignedDiffAbove(now, lastPcmChange, PCM_IDLE_TIMEOUT + 1)

IdleTimedOut == UnsignedDiffAbove(now, lastPcmChange, PCM_IDLE_TIMEOUT)

MonitorPoll ==
  /\ pc = "monitor"
  /\ pcmDirection' = IF IdleTimedOut THEN 0 ELSE pcmDirection
  /\ IF pcmStateChanged
       THEN pcmStateChanged' = FALSE /\ pc' = "decode"
       ELSE pcmStateChanged' = pcmStateChanged /\ pc' = "drive"
  /\ poll' = IF now - lastPcmChange > PCM_IDLE_TIMEOUT
               THEN [idle |-> TRUE, pending |-> pcmStateChanged, dir |-> pcmDirection,
                     pos |-> pcmStepPosition, idx |-> pcmStepIndex]
               ELSE NoPoll
  /\ UNCHANGED <<driverVars, logVars, currentPcmState, lastPcmChange, prevPcmState,
                 pcmStepIndex, pcmStepPosition, dl, response, lastSentHead, now, inputs,
                 traceVars, moveReq>>

\* index of the newest log entry
LastLogIdx == (logHead + LOG_BUFFER_SIZE - 1) % LOG_BUFFER_SIZE

MonitorDecode ==
  /\ pc = "decode"
  /\ LET currentState == EntryPattern(signalLog[LastLogIdx])
         r == Observe(pcmStepIndex, pcmDirection, pcmStepPosition, currentState)
     IN  /\ pcmStepIndex' = r.idx
         /\ pcmDirection' = r.dir
         /\ pcmStepPosition' = r.pos
         /\ prevPcmState' = currentState
         /\ fed' = IF KeepsFed THEN Append(fed, currentState) ELSE fed
  /\ pc' = "drive"
  /\ UNCHANGED <<driverVars, logVars, isrVars, dl, response, lastSentHead, now, inputs,
                 appended, edges, refIndex, refPos, slotSeq, clearSeq, delivered,
                 poll, moveReq>>

\* The idle test of monitorPcmSignals as the processor runs it: the two
\* operands of millis() - lastPcmChange are read one after the other, in the
\* order the compiler chose, and the ISR and the clock can run in between.
\* dl holds the operand read first.
MonitorReadClock ==
  /\ pc = "monitor"
  /\ dl' = [active |-> FALSE, read |-> "millis", value |-> now]
  /\ pc' = "idletest"
  /\ UNCHANGED <<driverVars, logVars, isrVars, decoderVars, response, lastSentHead, now,
                 inputs, histVars>>

MonitorReadLastChange ==
  /\ pc = "monitor"
  /\ dl' = [active |-> FALSE, read |-> "lastPcmChange", value |-> lastPcmChange]
  /\ pc' = "idletest"
  /\ UNCHANGED <<driverVars, logVars, isrVars, decoderVars, response, lastSentHead, now,
                 inputs, histVars>>

\* the second operand is read, the difference compared, the flag tested
MonitorIdleTest ==
  /\ pc = "idletest"
  /\ LET clock == IF dl.read = "millis" THEN dl.value ELSE now
         last == IF dl.read = "millis" THEN lastPcmChange ELSE dl.value
     IN  pcmDirection' = IF UnsignedDiffAbove(clock, last, PCM_IDLE_TIMEOUT)
                           THEN 0
                           ELSE pcmDirection
  /\ IF pcmStateChanged
       THEN pcmStateChanged' = FALSE /\ pc' = "decode"
       ELSE pcmStateChanged' = pcmStateChanged /\ pc' = "drive"
  /\ dl' = NoDownload
  /\ poll' = IF now - lastPcmChange > PCM_IDLE_TIMEOUT
               THEN [idle |-> TRUE, pending |-> pcmStateChanged, dir |-> pcmDirection,
                     pos |-> pcmStepPosition, idx |-> pcmStepIndex]
               ELSE NoPoll
  /\ UNCHANGED <<driverVars, logVars, currentPcmState, lastPcmChange, prevPcmState,
                 pcmStepIndex, pcmStepPosition, response, lastSentHead, now, inputs,
                 traceVars, moveReq>>

(***************************************************************************)
(* Stepper driver                                                          *)
(***************************************************************************)

\* currentStep after executeStep
\* the phase advanced whatever the direction
NextStepForwardOnly == (currentStep + 1) % 4

NextStep ==
  LET s == currentStep + stepDirection
  IN  IF s > 3 THEN 0 ELSE IF s < 0 THEN 3 ELSE s

\* loop(), the stepper movement part; delay(stepDelayMs) lets time pass and
\* interrupts run, which the clock and the ISR do at any point of the model
LoopDrive ==
  /\ pc = "drive"
  /\ pc' = "client"
  /\ IF isMoving
       THEN /\ totalStepsTaken < MaxDriveSteps
            /\ moveReq' = [moveReq EXCEPT
                             !.ticks = @ + 1,
                             !.seen = Observe(@.idx, @.dir, @.pos,
                                              PatternOf(STEP_SEQUENCE[NextStep]))]
            /\ currentStep' = NextStep
            /\ youStepPosition' = youStepPosition + stepDirection
            /\ totalStepsTaken' = totalStepsTaken + 1
            /\ IF targetSteps # 0 /\ targetSteps - 1 = 0
                 THEN /\ isMoving' = FALSE
                      /\ stby' = 0
                      /\ motorOut' = <<0, 0, 0, 0>>
                      /\ motorEnabled' = FALSE
                      /\ targetSteps' = 0
                 ELSE /\ motorOut' = STEP_SEQUENCE[NextStep]
                      /\ targetSteps' = IF targetSteps # 0 THEN targetSteps - 1 ELSE 0
                      /\ UNCHANGED <<isMoving, stby, motorEnabled>>
            /\ UNCHANGED <<stepDirection, stepDelayMs>>
       ELSE UNCHANGED <<driverVars, moveReq>>
  /\ poll' = NoPoll
  /\ UNCHANGED <<logVars, isrVars, decoderVars, dl, response, lastSentHead, now, inputs,
                 traceVars>>

(***************************************************************************)
(* Request handlers, run by server.handleClient()                          *)
(***************************************************************************)

\* handleClient with no request pending: nothing is sent in this iteration
ServeNone ==
  /\ pc = "client"
  /\ response' = NoResponse
  /\ pc' = "monitor"
  /\ UNCHANGED <<driverVars, logVars, isrVars, decoderVars, dl, lastSentHead, now, inputs,
                 histVars>>

Abs(n) == IF n < 0 THEN -n ELSE n

\* a continuous move that takes the direction argument as it comes
HandleMoveContinuousRawDir(dir) ==
  /\ pc = "client"
  /\ stepDirection' = dir
  /\ targetSteps' = 0
  /\ stby' = 1
  /\ motorEnabled' = TRUE
  /\ isMoving' = TRUE
  /\ response' = OkResponse
  /\ pc' = "monitor"
  /\ moveReq' = [kind |-> "continuous", arg |-> dir,
                  was |-> IF isMoving THEN moveReq.kind ELSE "none",
                  ticks |-> 0,
                  total0 |-> totalStepsTaken, pos0 |-> youStepPosition,
                  step0 |-> currentStep, t0 |-> IF KeepsMoveTime THEN now ELSE 0,
                  seen |-> NoDecoder]
  /\ UNCHANGED <<currentStep, stepDelayMs, totalStepsTaken, youStepPosition, motorOut, logVars,
                 isrVars, decoderVars, dl, lastSentHead, now, inputs, traceVars, poll>>

\* handleMove with the argument "continuous"
HandleMoveContinuous(dir) ==
  /\ pc = "client"
  /\ stepDirection' = IF dir > 0 THEN 1 ELSE -1
  /\ targetSteps' = 0
  /\ stby' = 1
  /\ motorEnabled' = TRUE
  /\ isMoving' = TRUE
  /\ response' = OkResponse
  /\ pc' = "monitor"
  /\ moveReq' = [kind |-> "continuous", arg |-> dir, was |-> IF isMoving THEN moveReq.kind ELSE "none",
                  ticks |-> 0,
                  total0 |-> totalStepsTaken, pos0 |-> youStepPosition,
                  step0 |-> currentStep, t0 |-> IF KeepsMoveTime THEN now ELSE 0,
                  seen |-> NoDecoder]
  /\ UNCHANGED <<currentStep, stepDelayMs, totalStepsTaken, youStepPosition, motorOut, logVars,
                 isrVars, decoderVars, dl, lastSentHead, now, inputs, traceVars, poll>>

\* a fixed move started without enabling the driver
HandleMoveStepsNoEnable(steps) ==
  /\ pc = "client"
  /\ stepDirection' = IF steps > 0 THEN 1 ELSE -1
  /\ targetSteps' = Abs(steps)
  /\ isMoving' = TRUE
  /\ response' = OkResponse
  /\ pc' = "monitor"
  /\ moveReq' = [kind |-> "steps", arg |-> steps, was |-> IF isMoving THEN moveReq.kind ELSE "none",
                  ticks |-> 0,
                  total0 |-> totalStepsTaken, pos0 |-> youStepPosition,
                  step0 |-> currentStep, t0 |-> IF KeepsMoveTime THEN now ELSE 0,
                  seen |-> NoDecoder]
  /\ UNCHANGED <<currentStep, stepDelayMs, totalStepsTaken, youStepPosition, motorOut,
                 stby, motorEnabled, logVars, isrVars, decoderVars, dl, lastSentHead, now,
                 inputs, traceVars, poll>>

\* a fixed move added to the move in flight rather than replacing it
HandleMoveStepsQueued(steps) ==
  /\ pc = "client"
  /\ stepDirection' = IF isMoving THEN stepDirection ELSE IF steps > 0 THEN 1 ELSE -1
  /\ targetSteps' = targetSteps + Abs(steps)
  /\ stby' = 1
  /\ motorEnabled' = TRUE
  /\ isMoving' = TRUE
  /\ response' = OkResponse
  /\ pc' = "monitor"
  /\ moveReq' = [kind |-> "steps", arg |-> steps, was |-> IF isMoving THEN moveReq.kind ELSE "none",
                  ticks |-> 0,
                  total0 |-> totalStepsTaken, pos0 |-> youStepPosition,
                  step0 |-> currentStep, t0 |-> IF KeepsMoveTime THEN now ELSE 0,
                  seen |-> NoDecoder]
  /\ UNCHANGED <<currentStep, stepDelayMs, totalStepsTaken, youStepPosition, motorOut, logVars,
                 isrVars, decoderVars, dl, lastSentHead, now, inputs, traceVars, poll>>

\* handleMove with the argument "steps"
HandleMoveSteps(steps) ==
  /\ pc = "client"
  /\ stepDirection' = IF steps > 0 THEN 1 ELSE -1
  /\ targetSteps' = Abs(steps)
  /\ stby' = 1
  /\ motorEnabled' = TRUE
  /\ isMoving' = TRUE
  /\ response' = OkResponse
  /\ pc' = "monitor"
  /\ moveReq' = [kind |-> "steps", arg |-> steps, was |-> IF isMoving THEN moveReq.kind ELSE "none",
                  ticks |-> 0,
                  total0 |-> totalStepsTaken, pos0 |-> youStepPosition,
                  step0 |-> currentStep, t0 |-> IF KeepsMoveTime THEN now ELSE 0,
                  seen |-> NoDecoder]
  /\ UNCHANGED <<currentStep, stepDelayMs, totalStepsTaken, youStepPosition, motorOut, logVars,
                 isrVars, decoderVars, dl, lastSentHead, now, inputs, traceVars, poll>>

\* a stop that leaves the coil outputs as they are
HandleStopLeavesOutputs ==
  /\ pc = "client"
  /\ isMoving' = FALSE
  /\ targetSteps' = 0
  /\ stby' = 0
  /\ motorEnabled' = FALSE
  /\ response' = OkResponse
  /\ pc' = "monitor"
  /\ moveReq' = [kind |-> "stopped", arg |-> targetSteps,
                  was |-> IF isMoving THEN moveReq.kind ELSE "none", ticks |-> 0,
                  total0 |-> totalStepsTaken, pos0 |-> youStepPosition,
                  step0 |-> currentStep, t0 |-> IF KeepsMoveTime THEN now ELSE 0,
                  seen |-> NoDecoder]
  /\ UNCHANGED <<currentStep, stepDelayMs, stepDirection, totalStepsTaken, youStepPosition,
                 motorOut, logVars, isrVars, decoderVars, dl, lastSentHead, now, inputs,
                 traceVars, poll>>

\* a stop that leaves the moving flag as it is
HandleStopLeavesMoving ==
  /\ pc = "client"
  /\ targetSteps' = 0
  /\ stby' = 0
  /\ motorOut' = <<0, 0, 0, 0>>
  /\ motorEnabled' = FALSE
  /\ response' = OkResponse
  /\ pc' = "monitor"
  /\ moveReq' = [kind |-> "stopped", arg |-> targetSteps,
                  was |-> IF isMoving THEN moveReq.kind ELSE "none", ticks |-> 0,
                  total0 |-> totalStepsTaken, pos0 |-> youStepPosition,
                  step0 |-> currentStep, t0 |-> IF KeepsMoveTime THEN now ELSE 0,
                  seen |-> NoDecoder]
  /\ UNCHANGED <<currentStep, stepDelayMs, stepDirection, totalStepsTaken, youStepPosition,
                 isMoving, logVars, isrVars, decoderVars, dl, lastSentHead, now, inputs,
                 traceVars, poll>>

HandleStop ==
  /\ pc = "client"
  /\ isMoving' = FALSE
  /\ targetSteps' = 0
  /\ stby' = 0
  /\ motorOut' = <<0, 0, 0, 0>>
  /\ motorEnabled' = FALSE
  /\ response' = OkResponse
  /\ pc' = "monitor"
  /\ moveReq' = [kind |-> "stopped", arg |-> targetSteps,
                  was |-> IF isMoving THEN moveReq.kind ELSE "none", ticks |-> 0,
                  total0 |-> totalStepsTaken, pos0 |-> youStepPosition,
                  step0 |-> currentStep, t0 |-> IF KeepsMoveTime THEN now ELSE 0,
                  seen |-> NoDecoder]
  /\ UNCHANGED <<currentStep, stepDelayMs, stepDirection, totalStepsTaken, youStepPosition, logVars,
                 isrVars, decoderVars, dl, lastSentHead, now, inputs, traceVars, poll>>

\* a clear that leaves the read index where it is
HandleLogClearKeepsTail ==
  /\ pc = "client"
  /\ logHead' = 0
  /\ logCount' = 0
  /\ logOverflow' = FALSE
  /\ appended' = <<>>
  /\ clearSeq' = edges
  /\ response' = OkResponse
  /\ pc' = "monitor"
  /\ UNCHANGED <<driverVars, signalLog, logTail, isrVars, decoderVars, dl, lastSentHead,
                 now, inputs, edges, refIndex, refPos, fed, slotSeq, delivered, poll,
                 moveReq>>

HandleLogClear ==
  /\ pc = "client"
  /\ logHead' = 0
  /\ logTail' = 0
  /\ logCount' = 0
  /\ logOverflow' = FALSE
  /\ appended' = <<>>
  /\ clearSeq' = edges
  /\ response' = OkResponse
  /\ pc' = "monitor"
  /\ UNCHANGED <<driverVars, signalLog, isrVars, decoderVars, dl, lastSentHead, now,
                 inputs, edges, refIndex, refPos, fed, slotSeq, delivered, poll, moveReq>>

HandleLogStatus ==
  /\ pc = "client"
  /\ response' = [kind |-> "logstatus", count |-> logCount, capacity |-> LOG_BUFFER_SIZE,
                  overflow |-> logOverflow]
  /\ pc' = "monitor"
  /\ UNCHANGED <<driverVars, logVars, isrVars, decoderVars, dl, lastSentHead, now, inputs,
                 histVars>>

\* the delay clamped from below only
ClampDelayLowerOnly(delay) == IF delay < 1 THEN 1 ELSE delay

\* stepDelayMs after the two clamping tests
ClampDelay(delay) ==
  LET raised == IF delay < 1 THEN 1 ELSE delay
  IN  IF raised > 500 THEN 500 ELSE raised

\* handleSettings, with or without the argument "delay" (toInt() of its text)
HandleSettings(hasDelay, delay) ==
  /\ pc = "client"
  /\ stepDelayMs' = IF hasDelay THEN ClampDelay(delay) ELSE stepDelayMs
  /\ response' = SettingsResponse(hasDelay, delay)
  /\ pc' = "monitor"
  /\ UNCHANGED <<currentStep, targetSteps, stepDirection, motorEnabled, isMoving,
                 totalStepsTaken, youStepPosition, stby, motorOut, logVars, isrVars,
                 decoderVars, dl, lastSentHead, now, inputs, histVars>>

\* a reset that also returns the driver to phase 0
HandleResetAlsoPhase ==
  /\ pc = "client"
  /\ youStepPosition' = 0
  /\ pcmStepPosition' = 0
  /\ totalStepsTaken' = 0
  /\ currentStep' = 0
  /\ refPos' = 0
  /\ response' = ResetResponse
  /\ pc' = "monitor"
  /\ UNCHANGED <<stepDelayMs, targetSteps, stepDirection, motorEnabled, isMoving, stby,
                 motorOut, logVars, isrVars, prevPcmState, pcmStepIndex, pcmDirection,
                 dl, lastSentHead, now, inputs, appended, edges, refIndex, fed,
                 slotSeq, clearSeq, delivered, poll, moveReq>>

HandleReset ==
  /\ pc = "client"
  /\ youStepPosition' = 0
  /\ pcmStepPosition' = 0
  /\ totalStepsTaken' = 0
  /\ refPos' = 0
  /\ response' = ResetResponse
  /\ pc' = "monitor"
  /\ UNCHANGED <<currentStep, stepDelayMs, targetSteps, stepDirection, motorEnabled,
                 isMoving, stby, motorOut, logVars, isrVars, prevPcmState, pcmStepIndex, pcmDirection,
                 dl, lastSentHead, now, inputs, appended, edges, refIndex, fed,
                 slotSeq, clearSeq, delivered, poll, moveReq>>

\* the answer of handlePinAutoConfig
AutoConfigResponse(success) == [kind |-> "autoconfig", success |-> success]

\* handlePinAutoConfig: the coil outputs are driven LOW, STBY is driven HIGH,
\* each output is pulsed HIGH and LOW again while the inputs are read, and
\* STBY is driven LOW; the driver's flags are not touched. In these runs
\* the monitored inputs do not follow the outputs (they show the patterns
\* of inputs), so every output finds the same input or none and the answer
\* is an error.
HandlePinAutoConfig ==
  /\ pc = "client"
  /\ motorOut' = <<0, 0, 0, 0>>
  /\ stby' = 0
  /\ response' = AutoConfigResponse(FALSE)
  /\ pc' = "monitor"
  /\ UNCHANGED <<currentStep, stepDelayMs, targetSteps, stepDirection, motorEnabled,
                 isMoving, totalStepsTaken, youStepPosition, logVars, isrVars,
                 decoderVars, dl, lastSentHead, now, inputs, histVars>>

(***************************************************************************)
(* handleLogDownload: snapshot with interrupts off, then one row per step  *)
(***************************************************************************)

\* one CSV row: timestamp,pcmA1,pcmA2,pcmB1,pcmB2,iacActive
Row(e) == <<e.timestamp, e.pcmA1, e.pcmA2, e.pcmB1, e.pcmB2, e.iacActive>>

\* index of the i-th row of an export that starts at tail
ExportIdx(tail, i) == (tail + i) % LOG_BUFFER_SIZE

HandleLogDownload ==
  /\ pc = "client"
  /\ response' = NoResponse
  /\ dl' = [active |-> TRUE, count |-> logCount, tail |-> logTail,
            overflow |-> logOverflow, i |-> 0, csv |-> <<>>,
            logged |-> appended, startEdges |-> edges, seqs |-> <<>>]
  /\ pc' = "download"
  /\ UNCHANGED <<driverVars, logVars, isrVars, decoderVars, lastSentHead, now, inputs,
                 histVars>>

DownloadRow ==
  /\ pc = "download"
  /\ dl.i < dl.count
  /\ dl' = [dl EXCEPT !.csv = Append(dl.csv, Row(signalLog[ExportIdx(dl.tail, dl.i)])),
                      !.seqs = Append(dl.seqs, slotSeq[ExportIdx(dl.tail, dl.i)]),
                      !.i = dl.i + 1]
  /\ UNCHANGED <<driverVars, logVars, isrVars, decoderVars, pc, response, lastSentHead,
                 now, inputs, histVars>>

DownloadSend ==
  /\ pc = "download"
  /\ dl.i >= dl.count
  /\ response' = [kind |-> "csv", count |-> dl.count, capacity |-> LOG_BUFFER_SIZE,
                  overflow |-> dl.overflow, rows |-> dl.csv,
                  logged |-> dl.logged, quiet |-> (edges = dl.startEdges),
                  seqs |-> dl.seqs, startEdges |-> dl.startEdges]
  /\ dl' = NoDownload
  /\ pc' = "monitor"
  /\ UNCHANGED <<driverVars, logVars, isrVars, decoderVars, lastSentHead, now, inputs,
                 histVars>>

(***************************************************************************)
(* handleStatus: the live log tail since the previous poll                 *)
(***************************************************************************)

Min(a, b) == IF a < b THEN a ELSE b

\* entries appended since the previous poll, from the two write indices
NewEntries ==
  IF logHead >= lastSentHead
    THEN logHead - lastSentHead
    ELSE (LOG_BUFFER_SIZE - lastSentHead) + logHead

\* every new entry sent, however many
EntriesToSendUncapped == NewEntries

EntriesToSend == Min(StatusMaxEntries, NewEntries)

StartIdx == (logHead - EntriesToSend + LOG_BUFFER_SIZE) % LOG_BUFFER_SIZE

\* index of the i-th entry sent, i from 1
StatusIdx(i) == (StartIdx + (i - 1)) % LOG_BUFFER_SIZE

\* one object of the "log" array
StatusEntry(e) ==
  [t |-> e.timestamp, a1 |-> e.pcmA1, a2 |-> e.pcmA2, b1 |-> e.pcmB1, b2 |-> e.pcmB2,
   iac |-> e.iacActive]

HandleStatus ==
  /\ pc = "client"
  /\ LET seqs == [i \in 1..EntriesToSend |-> slotSeq[StatusIdx(i)]]
     IN  /\ response' = [kind |-> "status",
                         youDir |-> IF isMoving THEN stepDirection ELSE 0,
                         pcmDir |-> pcmDirection,
                         youPos |-> youStepPosition,
                         pcmPos |-> pcmStepPosition,
                         log |-> [i \in 1..EntriesToSend |-> StatusEntry(signalLog[StatusIdx(i)])],
                         seqs |-> seqs, upto |-> edges]
         /\ delivered' = IF KeepsDelivered THEN delivered \o seqs ELSE delivered
  /\ lastSentHead' = logHead
  /\ pc' = "monitor"
  /\ UNCHANGED <<driverVars, logVars, isrVars, decoderVars, dl, now, inputs,
                 appended, edges, refIndex, refPos, fed, slotSeq, clearSeq, poll, moveReq>>

\* handleStatus as the processor runs it, interrupts enabled: logHead is
\* read for the wrap test, for the count, for the start index and for the
\* new cursor, and each entry is read when it is added to the "log" array;
\* the ISR can run between any two of these. dl holds the document built so
\* far and the locals newEntries, entriesToSend, startIdx and i.

\* a % b of C for b > 0: the sign of the result is the sign of a
CRem(a, b) == IF a >= 0 THEN a % b ELSE -((-a) % b)

StatusTest ==
  /\ pc = "client"
  /\ dl' = [active |-> FALSE, at |-> "count",
            youDir |-> IF isMoving THEN stepDirection ELSE 0,
            pcmDir |-> pcmDirection, youPos |-> youStepPosition,
            pcmPos |-> pcmStepPosition,
            wrapped |-> ~(logHead >= lastSentHead),
            newEntries |-> 0, entriesToSend |-> 0, startIdx |-> 0, i |-> 0,
            log |-> <<>>, seqs |-> <<>>, upto |-> edges]
  /\ response' = NoResponse
  /\ pc' = "status"
  /\ UNCHANGED <<driverVars, logVars, isrVars, decoderVars, lastSentHead, now, inputs,
                 histVars>>

StatusCount ==
  /\ pc = "status"
  /\ dl.at = "count"
  /\ dl' = [dl EXCEPT !.at = "start",
                      !.newEntries = IF dl.wrapped
                                       THEN (LOG_BUFFER_SIZE - lastSentHead) + logHead
                                       ELSE logHead - lastSentHead]
  /\ UNCHANGED <<driverVars, logVars, isrVars, decoderVars, pc, response, lastSentHead,
                 now, inputs, histVars>>

StatusStart ==
  /\ pc = "status"
  /\ dl.at = "start"
  /\ LET entriesToSend == Min(StatusMaxEntries, dl.newEntries)
     IN  dl' = [dl EXCEPT !.at = "rows",
                          !.entriesToSend = entriesToSend,
                          !.startIdx = CRem(logHead - entriesToSend + LOG_BUFFER_SIZE,
                                            LOG_BUFFER_SIZE)]
  /\ UNCHANGED <<driverVars, logVars, isrVars, decoderVars, pc, response, lastSentHead,
                 now, inputs, histVars>>

StatusRow ==
  /\ pc = "status"
  /\ dl.at = "rows"
  /\ dl.i < dl.entriesToSend
  /\ LET idx == CRem(dl.startIdx + dl.i, LOG_BUFFER_SIZE)
     IN  dl' = [dl EXCEPT !.log = Append(@, StatusEntry(signalLog[idx])),
                          !.seqs = Append(@, slotSeq[idx]),
                          !.i = @ + 1]
  /\ UNCHANGED <<driverVars, logVars, isrVars, decoderVars, pc, response, lastSentHead,
                 now, inputs, histVars>>

StatusSend ==
  /\ pc = "status"
  /\ dl.at = "rows"
  /\ ~(dl.i < dl.entriesToSend)
  /\ lastSentHead' = logHead
  /\ response' = [kind |-> "status", youDir |-> dl.youDir, pcmDir |-> dl.pcmDir,
                  youPos |-> dl.youPos, pcmPos |-> dl.pcmPos, log |-> dl.log,
                  seqs |-> dl.seqs, upto |-> dl.upto]
  /\ delivered' = IF KeepsDelivered THEN delivered \o dl.seqs ELSE delivered
  /\ dl' = NoDownload
  /\ pc' = "monitor"
  /\ UNCHANGED <<driverVars, logVars, isrVars, decoderVars, now, inputs,
                 appended, edges, refIndex, refPos, fed, slotSeq, clearSeq, poll, moveReq>>

(***************************************************************************)
(* Clock                                                                   *)
(***************************************************************************)

\* millis() advances by one of the amounts in D
Tick(D) ==
  /\ \E d \in D : now + d <= MaxTime /\ now' = now + d
  /\ UNCHANGED <<driverVars, logVars, isrVars, decoderVars, mainVars, inputs, histVars>>

\* millis() advances to a later one of the instants in T
TickWithin(T) ==
  /\ \E t \in T : t > now /\ now' = t
  /\ UNCHANGED <<driverVars, logVars, isrVars, decoderVars, mainVars, inputs, histVars>>

(***************************************************************************)
(* Specifications                                                          *)
(***************************************************************************)

\* The decoder under edges and main-loop polls, with no request and within
\* one millisecond: all 16 patterns with few edges, or a small alphabet with
\* more edges.
InitDecoder == InitWith({Patterns, PhasePatterns, HoldCoastPatterns})

NextDecoder ==
  \/ pcmPinChangeISR
  \/ ServeNone
  \/ MonitorPoll
  \/ MonitorDecode
  \/ LoopDrive

SpecDecoder == InitDecoder /\ [][NextDecoder]_vars

\* The log under edges, full exports and one-step moves, with the clock
\* running.
InitLog == InitWith({LogPatterns})

TickOne == Tick({1})

MoveOneStep == totalStepsTaken < MaxSteps /\ HandleMoveSteps(1)

NextLog ==
  \/ pcmPinChangeISR
  \/ TickOne
  \/ ServeNone
  \/ MoveOneStep
  \/ HandleLogDownload
  \/ DownloadRow
  \/ DownloadSend
  \/ MonitorPoll
  \/ MonitorDecode
  \/ LoopDrive

SpecLog == InitLog /\ [][NextLog]_vars

\* Ring runs: edges between two phases, with clears, exports and both status
\* polls; the clock stands still and the driver is idle.
InitRing == InitWith({RingPatterns})

NextRing ==
  \/ pcmPinChangeISR
  \/ ServeNone
  \/ HandleLogClear
  \/ HandleLogStatus
  \/ HandleStatus
  \/ HandleLogDownload
  \/ DownloadRow
  \/ DownloadSend
  \/ MonitorPoll
  \/ MonitorDecode
  \/ LoopDrive

SpecRing == InitRing /\ [][NextRing]_vars

\* Idle runs: a few edges between two phases while the clock runs past the
\* idle timeout; no requests.
InitIdle == InitWith({IdlePatterns})

\* the instants of these runs: around the start and around the timeout
IdleTimes == (0..MaxTime) \cup (PCM_IDLE_TIMEOUT..(PCM_IDLE_TIMEOUT + MaxTime))

TickIdle == TickWithin(IdleTimes)

NextIdle ==
  \/ pcmPinChangeISR
  \/ TickIdle
  \/ ServeNone
  \/ MonitorPoll
  \/ MonitorDecode
  \/ LoopDrive

SpecIdle == InitIdle /\ [][NextIdle]_vars

\* Driver runs: move and stop requests with the monitored pins at rest.
InitDriver == InitWith({DriverPatterns})

MoveSteps == \E steps \in (-MaxMove)..MaxMove : HandleMoveSteps(steps)

MoveContinuous == \E dir \in {-1, 1} : HandleMoveContinuous(dir)

NextDriver ==
  \/ ServeNone
  \/ MoveSteps
  \/ MoveContinuous
  \/ HandleStop
  \/ MonitorPoll
  \/ LoopDrive

SpecDriver == InitDriver /\ [][NextDriver]_vars

\* Watchdog runs: continuous moves and stops while the clock runs past the
\* safety timeout of the control page.
WatchTimes == (0..MaxTime) \cup (SafetyTimeoutMs..(SafetyTimeoutMs + MaxTime))

TickWatch == TickWithin(WatchTimes)

NextWatchdog ==
  \/ TickWatch
  \/ ServeNone
  \/ MoveContinuous
  \/ HandleStop
  \/ MonitorPoll
  \/ LoopDrive

SpecWatchdog == InitDriver /\ [][NextWatchdog]_vars

\* Settings runs: requests for step delays from below the range to above it,
\* the two extreme values of toInt(), and requests without the argument.
DelayInputs ==
  ((-MaxDelayOver)..(500 + MaxDelayOver)) \cup {-2147483647, 2147483647}

SetDelay == \E delay \in DelayInputs : HandleSettings(TRUE, delay)

SettingsNoDelay == HandleSettings(FALSE, 0)

NextSettings ==
  \/ ServeNone
  \/ SetDelay
  \/ SettingsNoDelay
  \/ MonitorPoll
  \/ LoopDrive

SpecSettings == InitDriver /\ [][NextSettings]_vars

\* Reset runs: a few edges between two phases, reverse moves of several
\* steps and position resets; the clock stands still.
MoveBack == HandleMoveSteps(-MaxMove)

NextReset ==
  \/ pcmPinChangeISR
  \/ ServeNone
  \/ MoveBack
  \/ HandleReset
  \/ MonitorPoll
  \/ MonitorDecode
  \/ LoopDrive

SpecReset == InitIdle /\ [][NextReset]_vars

\* Idle-test runs: edges, clock ticks and polls within a few milliseconds
\* of the start, the idle test made read by read.
InitRace == InitWith({RacePatterns})

NextRace ==
  \/ pcmPinChangeISR
  \/ TickOne
  \/ ServeNone
  \/ MonitorReadClock
  \/ MonitorReadLastChange
  \/ MonitorIdleTest
  \/ MonitorDecode
  \/ LoopDrive

SpecRace == InitRace /\ [][NextRace]_vars

\* Poll runs: status polls made read by read while the ISR appends.
InitPoll == InitWith({PollPatterns})

NextPoll ==
  \/ pcmPinChangeISR
  \/ ServeNone
  \/ StatusTest
  \/ StatusCount
  \/ StatusStart
  \/ StatusRow
  \/ StatusSend
  \/ MonitorPoll
  \/ MonitorDecode
  \/ LoopDrive

SpecPoll == InitPoll /\ [][NextPoll]_vars

\* Limit runs: more than 10 edges and status polls, in a log large enough
\* not to wrap.
InitCap == InitWith({CapPatterns})

NextCap ==
  \/ pcmPinChangeISR
  \/ ServeNone
  \/ HandleStatus
  \/ MonitorPoll
  \/ MonitorDecode
  \/ LoopDrive

SpecCap == InitCap /\ [][NextCap]_vars

\* Power runs: fixed moves in both directions, stops, settings, position
\* resets and pin auto-configuration, in any order, between ticks.
MoveEither == \E steps \in {-MaxMove, MaxMove} : HandleMoveSteps(steps)

SetDelayEdge == \E delay \in {0, 501} : HandleSettings(TRUE, delay)

NextPower ==
  \/ ServeNone
  \/ MoveEither
  \/ HandleStop
  \/ SetDelayEdge
  \/ HandleReset
  \/ HandlePinAutoConfig
  \/ MonitorPoll
  \/ LoopDrive

SpecPower == InitDriver /\ [][NextPower]_vars

\* Argument runs: move requests with any argument toInt() can deliver, from
\* the most negative to the most positive, zero included.
MoveArgs == ((-MaxMove)..MaxMove) \cup {-2147483647, 2147483647}

MoveAnySteps == \E steps \in MoveArgs : HandleMoveSteps(steps)

MoveAnyDir == \E dir \in MoveArgs : HandleMoveContinuous(dir)

NextArgs ==
  \/ ServeNone
  \/ MoveAnySteps
  \/ MoveAnyDir
  \/ HandleStop
  \/ MonitorPoll
  \/ LoopDrive

SpecArgs == InitDriver /\ [][NextArgs]_vars

(***************************************************************************)
(* Properties of the decoder (SpecDecoder)                                 *)
(***************************************************************************)

\* the step of monitorPcmSignals that decodes a pattern
DecodeStep == pc = "decode" /\ pc' = "drive"

\* the phase (or -1) of the pattern that step decodes
DecodedPhase == STEP_LOOKUP[fed'[Len(fed')]]

IsPrefix(s, t) == Len(s) <= Len(t) /\ SubSeq(t, 1, Len(s)) = s

ForwardScenario == <<5, 6, 10, 9, 5>>

ReverseScenario == <<5, 9, 10, 6, 5>>

HoldCoastScenario == <<15, 5, 0, 5>>

\* C1: at every quiescent point (no edge flagged and no decode pending) the
\* decoder's position and last phase equal those of a decoder that was fed
\* every appended pattern in order, for any number of edges between polls.
C1_EveryEdgeDecoded ==
  (~pcmStateChanged /\ pc # "decode")
    => (pcmStepPosition = refPos /\ pcmStepIndex = refIndex)

\* C2: a decode of the phase after the last phase sets the direction to forward
\* and adds exactly one to the position; 5,6,10,9,5 decoded one at a time from
\* the initial state gives forward after each transition and ends at +4.
C2_ForwardStep ==
  [][DecodeStep =>
       /\ (pcmStepIndex \in 0..3 /\ DecodedPhase = (pcmStepIndex + 1) % 4)
            => (pcmDirection' = 1 /\ pcmStepPosition' = pcmStepPosition + 1)
       /\ (Len(fed') >= 2 /\ IsPrefix(fed', ForwardScenario))
            => (pcmDirection' = 1 /\ pcmStepPosition' = Len(fed') - 1)]_vars

C2_Witness ==
  fed = ForwardScenario /\ pcmStepPosition = 4 /\ pcmDirection = 1 /\ pc = "drive"

\* C3: a decode of the phase before the last phase sets the direction to
\* reverse and subtracts exactly one from the position; 5,9,10,6,5 decoded one
\* at a time from the initial state gives reverse and ends at -4.
C3_ReverseStep ==
  [][DecodeStep =>
       /\ (pcmStepIndex \in 0..3 /\ DecodedPhase = (pcmStepIndex + 3) % 4)
            => (pcmDirection' = -1 /\ pcmStepPosition' = pcmStepPosition - 1)
       /\ (Len(fed') >= 2 /\ IsPrefix(fed', ReverseScenario))
            => (pcmDirection' = -1 /\ pcmStepPosition' = 1 - Len(fed'))]_vars

C3_Witness ==
  fed = ReverseScenario /\ pcmStepPosition = -4 /\ pcmDirection = -1 /\ pc = "drive"

\* C4: a decode of the phase two away from the last phase leaves position and
\* direction unchanged and makes that phase the last phase; and the ISR logs
\* the pattern of such a jump like any other changed pattern.
C4_NonAdjacentJump ==
  [][/\ (DecodeStep /\ pcmStepIndex \in 0..3
                    /\ DecodedPhase = (pcmStepIndex + 2) % 4)
          => /\ pcmStepPosition' = pcmStepPosition
             /\ pcmDirection' = pcmDirection
             /\ pcmStepIndex' = DecodedPhase
     /\ (/\ currentPcmState' # currentPcmState
         /\ STEP_LOOKUP[currentPcmState] \in 0..3
         /\ STEP_LOOKUP[currentPcmState'] = (STEP_LOOKUP[currentPcmState] + 2) % 4)
          => /\ EntryPattern(signalLog'[logHead]) = currentPcmState'
             /\ logHead' = (logHead + 1) % LOG_BUFFER_SIZE
             /\ (logCount' = logCount + 1 \/ logCount' = LOG_BUFFER_SIZE)]_vars

C4_Witness ==
  /\ Len(fed) >= 2
  /\ STEP_LOOKUP[fed[Len(fed) - 1]] \in 0..3
  /\ STEP_LOOKUP[fed[Len(fed)]] = (STEP_LOOKUP[fed[Len(fed) - 1]] + 2) % 4
  /\ pcmStepIndex = STEP_LOOKUP[fed[Len(fed)]]
  /\ EntryPattern(signalLog[LastLogIdx]) = fed[Len(fed)]
  /\ pc = "drive"

\* C5: a decode of a pattern that is no phase (hold, coast, transitional)
\* changes neither position nor direction; while 15,5,0,5 is decoded one at a
\* time from the initial state the position stays 0.
C5_NonPhaseIgnored ==
  [][DecodeStep =>
       /\ DecodedPhase = -1
            => (pcmStepPosition' = pcmStepPosition /\ pcmDirection' = pcmDirection)
       /\ IsPrefix(fed', HoldCoastScenario) => pcmStepPosition' = 0]_vars

C5_Witness ==
  /\ fed = HoldCoastScenario
  /\ pcmStepPosition = 0
  /\ pc = "drive"

\* the last pattern of s that is a phase, 0 when there is none
RECURSIVE LastValid(_)
LastValid(s) ==
  IF s = <<>> THEN 0
  ELSE IF STEP_LOOKUP[s[Len(s)]] >= 0 THEN s[Len(s)]
  ELSE LastValid(SubSeq(s, 1, Len(s) - 1))

\* C6: the last phase is the phase of the last valid pattern decoded, also
\* after a later hold, coast or invalid pattern; 5,15,6 ends at +1, forward.
C6_LastPhaseKept ==
  /\ (pc # "decode" /\ LastValid(fed) # 0)
       => pcmStepIndex = STEP_LOOKUP[LastValid(fed)]
  /\ (pc # "decode" /\ fed = <<5, 15, 6>>)
       => (pcmStepPosition = 1 /\ pcmDirection = 1)

\* C7: a decode of the pattern that was decoded last changes neither position
\* nor direction nor the last phase.
C7_SecondDecodeIsNull ==
  [][(DecodeStep /\ Len(fed) >= 1 /\ fed'[Len(fed')] = fed[Len(fed)])
       => /\ pcmStepPosition' = pcmStepPosition
          /\ pcmDirection' = pcmDirection
          /\ pcmStepIndex' = pcmStepIndex]_vars

C7_Witness ==
  /\ Len(fed) >= 3
  /\ fed[Len(fed)] = fed[Len(fed) - 1]
  /\ pcmDirection # 0
  /\ pc = "drive"

\* C8: with no last phase (pcmStepIndex = -1) a decode of a valid pattern makes
\* its phase the last phase and changes neither position nor direction.
C8_FirstPhaseOnly ==
  [][(DecodeStep /\ pcmStepIndex = -1 /\ DecodedPhase \in 0..3)
       => /\ pcmStepIndex' = DecodedPhase
          /\ pcmStepPosition' = pcmStepPosition
          /\ pcmDirection' = pcmDirection]_vars

C8_Witness ==
  /\ Len(fed) >= 2
  /\ STEP_LOOKUP[fed[Len(fed) - 1]] = -1
  /\ pcmStepIndex \in 0..3
  /\ pcmStepIndex = STEP_LOOKUP[fed[Len(fed)]]
  /\ pcmDirection # 0
  /\ pc = "drive"

(***************************************************************************)
(* Properties of the log (SpecLog)                                         *)
(***************************************************************************)

\* the CSV row of an appended entry: its timestamp, its coil bits A1, A2, B1,
\* B2 (bits 0 to 3 of the pattern) and whether the driver was moving
RowOf(a) ==
  <<a.t, a.state % 2, (a.state \div 2) % 2, (a.state \div 4) % 2, (a.state \div 8) % 2,
    IF a.moving THEN 1 ELSE 0>>

RowsOf(as) == [i \in 1..Len(as) |-> RowOf(as[i])]

\* the last n elements of s
LastN(s, n) == SubSeq(s, Len(s) - n + 1, Len(s))

\* a full export was sent and no edge was logged while it iterated
QuietExport == response.kind = "csv" /\ response.quiet

\* C9: a full export of a log that holds N <= LOG_BUFFER_SIZE entries appended
\* since it was empty, with no append during the export, has exactly those N
\* entries as rows, oldest first, each with its timestamp, coil bits and
\* driver-active flag.
C9_ExportRoundTrip ==
  (QuietExport /\ Len(response.logged) <= LOG_BUFFER_SIZE)
    => /\ response.count = Len(response.logged)
       /\ response.rows = RowsOf(response.logged)

C9_Witness ==
  /\ QuietExport
  /\ Len(response.logged) = LOG_BUFFER_SIZE
  /\ response.rows = RowsOf(response.logged)
  /\ \E i, j \in 1..LOG_BUFFER_SIZE :
       /\ response.rows[i][1] # response.rows[j][1]
       /\ response.rows[i][6] # response.rows[j][6]
       /\ response.rows[i][2] # response.rows[j][2]

\* C10: once more than LOG_BUFFER_SIZE entries were appended to the empty log,
\* logCount is LOG_BUFFER_SIZE and logOverflow is set, and a full export with
\* no append during it has the last LOG_BUFFER_SIZE entries as rows in
\* insertion order (after LOG_BUFFER_SIZE + 1 appends it starts at the 2nd).
C10_OverflowKeepsNewest ==
  /\ Len(appended) > LOG_BUFFER_SIZE
       => (logCount = LOG_BUFFER_SIZE /\ logOverflow)
  /\ (QuietExport /\ Len(response.logged) > LOG_BUFFER_SIZE)
       => /\ response.count = LOG_BUFFER_SIZE
          /\ response.overflow
          /\ response.rows = RowsOf(LastN(response.logged, LOG_BUFFER_SIZE))
  /\ (QuietExport /\ Len(response.logged) = LOG_BUFFER_SIZE + 1)
       => response.rows[1] = RowOf(response.logged[2])

C10_Witness ==
  /\ QuietExport
  /\ Len(response.logged) = LOG_BUFFER_SIZE + 2
  /\ response.overflow
  /\ response.rows[1] = RowOf(response.logged[3])
  /\ response.rows[1][1] # response.rows[LOG_BUFFER_SIZE][1]

C10_WitnessOneOver ==
  /\ QuietExport
  /\ Len(response.logged) = LOG_BUFFER_SIZE + 1
  /\ response.rows[1] = RowOf(response.logged[2])

\* pattern of the i-th entry in ring order from logTail, i from 0
RingPattern(i) == EntryPattern(signalLog[(logTail + i) % LOG_BUFFER_SIZE])

\* C28: the log is appended to exactly in the steps in which the sampled
\* pattern differs from the last seen one (currentPcmState), whatever the
\* pattern decodes to; the entry written carries the sampled pattern; and
\* two consecutive log entries never carry the same pattern.
C28_LoggedIffChanged ==
  [][ /\ (edges' # edges) <=> (currentPcmState' # currentPcmState)
      /\ (logHead' # logHead) <=> (currentPcmState' # currentPcmState)
      /\ (currentPcmState' # currentPcmState) =>
           /\ EntryPattern(signalLog'[logHead]) = currentPcmState'
           /\ pcmStateChanged'
      /\ \A i \in 0..(logCount' - 2) : RingPattern(i)' # RingPattern(i + 1)'
    ]_vars

\* the log holds a pattern that is no phase, hold or coast, then a phase
C28_Witness ==
  /\ logCount = LOG_BUFFER_SIZE
  /\ STEP_LOOKUP[RingPattern(logCount - 2)] = -1
  /\ RingPattern(logCount - 2) \notin {0, 15}
  /\ STEP_LOOKUP[RingPattern(logCount - 1)] # -1

(***************************************************************************)
(* Properties of the ring indices, clear and polls (SpecRing, SpecLog)     *)
(***************************************************************************)

\* C11: in every reachable state, whatever the interleaving of appends,
\* clears, exports and status polls, logCount lies between 0 and
\* LOG_BUFFER_SIZE, and so does every count a status poll or an export reports.
C11_CountInRange ==
  /\ logCount \in 0..LOG_BUFFER_SIZE
  /\ response.kind \in {"logstatus", "csv"} => response.count \in 0..LOG_BUFFER_SIZE

\* a status poll reports a full log after appends that evicted entries
C11_Witness ==
  /\ response.kind = "logstatus"
  /\ response.count = LOG_BUFFER_SIZE
  /\ response.overflow
  /\ clearSeq > 0
  /\ edges - clearSeq > LOG_BUFFER_SIZE

\* timestamp of the i-th entry in ring order from logTail, i from 0
RingTimestamp(i) == signalLog[(logTail + i) % LOG_BUFFER_SIZE].timestamp

\* C17: in every state between ISR runs, the logCount entries read from
\* logTail in ring order carry non-decreasing timestamps (the clock never
\* goes back; equal timestamps are allowed).
C17_TimestampsOrdered ==
  \A i \in 0..(logCount - 2) : RingTimestamp(i) <= RingTimestamp(i + 1)

\* a full log after an eviction whose oldest entry is older than its newest
C17_Witness ==
  /\ logOverflow
  /\ logCount = LOG_BUFFER_SIZE
  /\ logTail # 0
  /\ RingTimestamp(0) < RingTimestamp(logCount - 1)

\* the step of the ISR that sees a changed pattern, and the step of
\* handleLogClear (the only handler of these runs that answers {"ok":true})
AppendStep == currentPcmState' # currentPcmState

ClearStep == pc = "client" /\ pc' = "monitor" /\ response' = OkResponse

\* C12: every ISR run that sees a changed pattern writes the entry at
\* logHead and advances logHead, whatever the fill level; an append to a
\* full log sets logOverflow; and logOverflow, once true, stays true over
\* every step (append, export, poll) except a step of handleLogClear.
C12_OverflowSticky ==
  [][ /\ AppendStep =>
           /\ edges' = edges + 1
           /\ EntryPattern(signalLog'[logHead]) = currentPcmState'
           /\ slotSeq'[logHead] = edges'
           /\ logHead' = (logHead + 1) % LOG_BUFFER_SIZE
           /\ (logCount = LOG_BUFFER_SIZE => logOverflow')
      /\ (logOverflow /\ ~ClearStep) => logOverflow'
      /\ ClearStep => ~logOverflow'
    ]_vars

\* a status poll after an eviction and a further append, the flag still set
C12_Witness ==
  /\ response.kind = "status"
  /\ logOverflow
  /\ response.upto - clearSeq > LOG_BUFFER_SIZE + 1

\* the edge numbers first..last in order
SeqRange(first, last) == [i \in 1..(last - first + 1) |-> first + (i - 1)]

\* C13: right after handleLogClear (no edge since) the count is 0, the
\* overflow flag is false and the indices are 0, from whatever state the
\* clear was made; an export started with no edge since the clear has no
\* rows; no export returns an entry appended before the last clear, and a
\* quiet export returns the entries appended since the clear, from the
\* first of them (or the newest LOG_BUFFER_SIZE of them after an eviction).
C13_ClearEmpties ==
  /\ (response = OkResponse /\ edges = clearSeq)
       => (logCount = 0 /\ ~logOverflow /\ logHead = 0 /\ logTail = 0)
  /\ response.kind = "csv" =>
       /\ response.startEdges = clearSeq => (response.rows = <<>> /\ response.count = 0)
       /\ \A i \in 1..Len(response.seqs) : response.seqs[i] > clearSeq
       /\ response.quiet =>
            response.seqs =
              SeqRange(response.startEdges
                         - Min(LOG_BUFFER_SIZE, response.startEdges - clearSeq) + 1,
                       response.startEdges)

\* a clear made after an eviction, one edge after it, and a quiet export
\* that returns that edge alone
C13_Witness ==
  /\ response.kind = "csv"
  /\ response.quiet
  /\ clearSeq > LOG_BUFFER_SIZE
  /\ response.seqs = <<clearSeq + 1>>

\* C14: a status poll (handleStatus) never returns an entry that was not
\* appended after the last handleLogClear; with no edge after the clear the
\* log list of the next poll is empty.
C14_ClearResetsCursor ==
  response.kind = "status"
    => \A i \in 1..Len(response.seqs) : response.seqs[i] > clearSeq

\* C15: with no clear that discarded an entry (clearSeq = 0), the status
\* polls made so far have returned every entry appended before the last of
\* them exactly once and in insertion order.
C15_PollsReturnEveryEntry ==
  (response.kind = "status" /\ clearSeq = 0)
    => delivered = SeqRange(1, response.upto)

\* C16: the rows of every export, quiet or not, are in insertion order: no
\* row was appended later than a row exported after it.
C16_ExportInOrder ==
  response.kind = "csv"
    => \A i, j \in 1..Len(response.seqs) :
         i < j => response.seqs[i] < response.seqs[j]

(***************************************************************************)
(* Properties of the idle timeout (SpecIdle)                               *)
(***************************************************************************)

\* the decoder is as the idle test of this call found it, direction cleared
IdleOutcome ==
  /\ pcmDirection = 0
  /\ pcmStepPosition = poll.pos
  /\ pcmStepIndex = poll.idx

\* C18 as stated: when monitorPcmSignals is called more than
\* PCM_IDLE_TIMEOUT after the last edge, then at its return pcmDirection is
\* 0 and pcmStepPosition and pcmStepIndex are what they were at the call.
C18_IdleClearsDirection ==
  (pc = "drive" /\ poll.idle) => IdleOutcome

\* C18 amended: when monitorPcmSignals is called more than PCM_IDLE_TIMEOUT
\* after the last edge, the idle test sets pcmDirection to 0 and leaves
\* pcmStepPosition and pcmStepIndex unchanged, and that is the state at its
\* return when no logged edge was waiting to be decoded; an edge still
\* waiting is decoded after the idle test, in the same call.
C18_IdleClearsDirectionUnlessPending ==
  /\ (pc = "decode" /\ poll.idle) => (poll.pending /\ IdleOutcome)
  /\ (pc = "drive" /\ poll.idle /\ ~poll.pending) => IdleOutcome

\* a call made after the timeout with a direction detected, no edge waiting
C18_Witness ==
  /\ pc = "drive"
  /\ poll.idle
  /\ ~poll.pending
  /\ poll.dir # 0
  /\ poll.idx # -1
  /\ poll.pos # 0
  /\ pcmDirection = 0

(***************************************************************************)
(* Properties of the driver (SpecDriver)                                   *)
(***************************************************************************)

\* direction and count of the last fixed-step request, as handleMove reads it
ReqDir == IF moveReq.arg > 0 THEN 1 ELSE -1

ReqCount == Abs(moveReq.arg)

\* the driver k ticks into the last request
Progressed(k) ==
  /\ totalStepsTaken = moveReq.total0 + k
  /\ youStepPosition = moveReq.pos0 + ReqDir * k
  /\ currentStep = (moveReq.step0 + ReqDir * k + 4 * k) % 4

\* C19: after a fixed-step request for n > 0 steps in direction d and no
\* stop, the driver has taken k <= n ticks; while k < n it is moving and
\* enabled with n - k steps left; at k = n it is not moving, targetSteps is
\* 0, the driver is disabled with the all-off pattern on its outputs, and
\* totalStepsTaken, youStepPosition and the phase have advanced by n, d*n
\* and d*n mod 4.
C19_FixedMoveBoundary ==
  (moveReq.kind = "steps" /\ moveReq.arg # 0) =>
    /\ moveReq.ticks <= ReqCount
    /\ Progressed(moveReq.ticks)
    /\ moveReq.ticks < ReqCount =>
         /\ isMoving
         /\ motorEnabled
         /\ stby = 1
         /\ targetSteps = ReqCount - moveReq.ticks
         /\ stepDirection = ReqDir
         /\ moveReq.ticks > 0 => motorOut = STEP_SEQUENCE[currentStep]
    /\ moveReq.ticks = ReqCount =>
         /\ ~isMoving
         /\ targetSteps = 0
         /\ ~motorEnabled
         /\ stby = 0
         /\ motorOut = <<0, 0, 0, 0>>

\* a reverse move of more than one step, finished, begun away from phase 0
C19_Witness ==
  /\ moveReq.kind = "steps"
  /\ moveReq.arg < -1
  /\ moveReq.ticks = ReqCount
  /\ moveReq.step0 # 0
  /\ ~isMoving

\* the same move one tick before its end
C19_WitnessOneBefore ==
  /\ moveReq.kind = "steps"
  /\ moveReq.arg < -1
  /\ moveReq.ticks = ReqCount - 1
  /\ isMoving

\* C20: after a fixed-step request with step count 0 the driver is not
\* moving and takes no tick.
C20_ZeroStepsNoMove ==
  (moveReq.kind = "steps" /\ moveReq.arg = 0) => (~isMoving /\ moveReq.ticks = 0)

\* the steps of handleStop and of handleMove, and the tick of loop()
StopStep ==
  pc = "client" /\ pc' = "monitor" /\ response' = OkResponse /\ moveReq'.kind = "stopped"

MoveRequestStep ==
  /\ pc = "client"
  /\ pc' = "monitor"
  /\ response' = OkResponse
  /\ moveReq'.kind \in {"steps", "continuous"}

TickStep == pc = "drive" /\ pc' = "client"

\* the driver as disableMotor leaves it
DriverOff ==
  /\ ~motorEnabled
  /\ ~isMoving
  /\ targetSteps = 0
  /\ stby = 0
  /\ motorOut = <<0, 0, 0, 0>>

\* C21: the disable that handleStop performs leaves the driver not enabled,
\* not moving, with no steps left and all outputs off, whatever it was
\* doing; and once the driver is off, every step that is not a move request
\* (ticks included) leaves it off with the phase and the position unchanged.
C21_DisableWins ==
  [][ /\ StopStep => DriverOff'
      /\ (DriverOff /\ ~MoveRequestStep) =>
           /\ DriverOff'
           /\ currentStep' = currentStep
           /\ youStepPosition' = youStepPosition
           /\ totalStepsTaken' = totalStepsTaken
    ]_vars

\* a fixed move stopped with steps left, off, and a tick has passed since
C21_Witness ==
  /\ moveReq.kind = "stopped"
  /\ moveReq.was = "steps"
  /\ moveReq.arg > 1
  /\ pc = "client"
  /\ DriverOff

\* C22: a stop request sets isMoving false and targetSteps 0 and leaves
\* motorEnabled, STBY and the coil outputs as they were before the request.
C22_StopKeepsEnabled ==
  [][ StopStep =>
        /\ ~isMoving'
        /\ targetSteps' = 0
        /\ motorEnabled' = motorEnabled
        /\ stby' = stby
        /\ motorOut' = motorOut
    ]_vars

\* C25: after a stop request and until the next move request no step is
\* executed: the phase, youStepPosition and totalStepsTaken are those at the
\* stop, whether the stop interrupted a continuous or a fixed move.
C25_StopIsSynchronous ==
  moveReq.kind = "stopped" =>
    /\ moveReq.ticks = 0
    /\ currentStep = moveReq.step0
    /\ youStepPosition = moveReq.pos0
    /\ totalStepsTaken = moveReq.total0

\* a continuous move stopped after some steps, and a tick has passed since
C25_Witness ==
  /\ moveReq.kind = "stopped"
  /\ moveReq.was = "continuous"
  /\ moveReq.total0 > 0
  /\ pc = "client"

\* the same for a fixed move with steps left
C25_WitnessFixed ==
  /\ moveReq.kind = "stopped"
  /\ moveReq.was = "steps"
  /\ moveReq.arg > 0
  /\ moveReq.total0 > 0
  /\ pc = "client"

\* a request leaves the phase, the counters and the coil outputs alone
RequestFrame ==
  /\ currentStep' = currentStep
  /\ youStepPosition' = youStepPosition
  /\ totalStepsTaken' = totalStepsTaken
  /\ motorOut' = motorOut

\* C23 as stated: a move request (continuous or fixed) made while the driver
\* is not enabled leaves it not moving and not enabled, with the phase, the
\* position and the outputs unchanged.
C23_MoveRejectedWhenDisabled ==
  [][ (MoveRequestStep /\ ~motorEnabled) =>
        (~isMoving' /\ ~motorEnabled' /\ RequestFrame)
    ]_vars

\* C23 amended: a move request (continuous or fixed) made while the driver
\* is not enabled is accepted: handleMove enables the driver (motorEnabled
\* true, STBY high) and sets isMoving, and leaves the phase, the position
\* and the coil outputs unchanged until the next tick.
C23_MoveEnablesDriver ==
  [][ (MoveRequestStep /\ ~motorEnabled) =>
        (isMoving' /\ motorEnabled' /\ stby' = 1 /\ RequestFrame)
    ]_vars

\* a move just requested after an earlier move had ended with the driver
\* disabled (outputs still all off, steps already taken)
C23_Witness ==
  /\ moveReq.kind \in {"steps", "continuous"}
  /\ moveReq.ticks = 0
  /\ moveReq.total0 > 0
  /\ motorOut = <<0, 0, 0, 0>>
  /\ isMoving
  /\ motorEnabled

\* C30: in a continuous move every tick advances the phase by one in the
\* direction fixed at the request (+1 mod 4 forward, -1 mod 4 reverse),
\* puts the pattern of the new phase on the outputs, changes youStepPosition
\* by the direction and totalStepsTaken by 1, and leaves isMoving true,
\* targetSteps 0 and the driver enabled, for every tick until a stop.
C30_ContinuousTick ==
  [][ (TickStep /\ moveReq.kind = "continuous") =>
        LET d == IF moveReq.arg > 0 THEN 1 ELSE -1
        IN  /\ stepDirection = d
            /\ currentStep' = (currentStep + d + 4) % 4
            /\ motorOut' = STEP_SEQUENCE[currentStep']
            /\ youStepPosition' = youStepPosition + d
            /\ totalStepsTaken' = totalStepsTaken + 1
            /\ moveReq'.ticks = moveReq.ticks + 1
            /\ isMoving /\ isMoving'
            /\ targetSteps = 0 /\ targetSteps' = 0
            /\ motorEnabled' /\ stby' = 1
    ]_vars

\* a reverse continuous move that has gone once round the four phases
C30_Witness ==
  /\ moveReq.kind = "continuous"
  /\ moveReq.arg = -1
  /\ moveReq.ticks > 4
  /\ isMoving
  /\ youStepPosition = moveReq.pos0 - moveReq.ticks

\* C27: the patterns of phases 0..3 are 5, 6, 10, 9; the pattern the driver
\* emits for a phase (STEP_SEQUENCE) decodes back to that phase through
\* STEP_LOOKUP, also for the pattern on the outputs of a stepping driver;
\* each of the other 12 patterns decodes to invalid (-1).
C27_PhaseTableBijection ==
  /\ [p \in 0..3 |-> PatternOf(STEP_SEQUENCE[p])] = [p \in 0..3 |-> <<5, 6, 10, 9>>[p + 1]]
  /\ \A p \in 0..3 : STEP_LOOKUP[PatternOf(STEP_SEQUENCE[p])] = p
  /\ \A v \in Patterns \ {5, 6, 9, 10} : STEP_LOOKUP[v] = -1
  /\ (motorEnabled /\ motorOut # <<0, 0, 0, 0>>)
       => STEP_LOOKUP[PatternOf(motorOut)] = currentStep

\* a moving driver at phase 3 with the pattern of phase 3 on its outputs
C27_Witness ==
  /\ isMoving
  /\ currentStep = 3
  /\ PatternOf(motorOut) = 9

(***************************************************************************)
(* Properties of the safety timeout (SpecWatchdog)                         *)
(***************************************************************************)

\* C24: a continuous move does not go on without bound when no stop request
\* arrives: no tick executes a step of a continuous move more than
\* SafetyTimeoutMs after the request that started it.
C24_WatchdogEndsMove ==
  [][ ( /\ TickStep
        /\ moveReq.kind = "continuous"
        /\ now - moveReq.t0 > SafetyTimeoutMs )
        => (totalStepsTaken' = totalStepsTaken /\ ~isMoving')
    ]_vars

(***************************************************************************)
(* Properties of the step delay (SpecSettings)                             *)
(***************************************************************************)

\* C29: after any sequence of settings requests, with any integer delay,
\* stepDelayMs is within 1..500; a requested delay within 1..500 is taken
\* as it is.
C29_DelayClamped ==
  /\ stepDelayMs \in 1..500
  /\ ( /\ "handler" \in DOMAIN response
       /\ response.handler = "settings"
       /\ response.hasDelay
       /\ response.delay \in 1..500 )
       => stepDelayMs = response.delay

\* a request for more than 500 ms, answered with stepDelayMs at 500
C29_Witness ==
  /\ response = SettingsResponse(TRUE, 500 + MaxDelayOver)
  /\ stepDelayMs = 500

\* a request for less than 1 ms, answered with stepDelayMs at 1
C29_WitnessLow ==
  /\ response = SettingsResponse(TRUE, -MaxDelayOver)
  /\ stepDelayMs = 1

(***************************************************************************)
(* Properties of the position reset (SpecReset)                            *)
(***************************************************************************)

ResetStep == pc = "client" /\ pc' = "monitor" /\ response' = ResetResponse

\* C26: handleReset sets youStepPosition, pcmStepPosition and
\* totalStepsTaken to 0 and leaves the driver phase, the decoder's last
\* phase and direction, the moving and enabled flags, the outputs and the
\* log (entries, count, head, tail, overflow) unchanged.
C26_ResetFrame ==
  [][ ResetStep =>
        /\ youStepPosition' = 0
        /\ pcmStepPosition' = 0
        /\ totalStepsTaken' = 0
        /\ UNCHANGED <<currentStep, stepDelayMs, targetSteps, stepDirection, motorEnabled,
                       isMoving, stby, motorOut>>
        /\ UNCHANGED <<prevPcmState, pcmStepIndex, pcmDirection>>
        /\ UNCHANGED <<signalLog, logHead, logTail, logCount, logOverflow>>
    ]_vars

\* right after a reset made during a move, away from phase 0, with a
\* direction detected and a full log
C26_Witness ==
  /\ response = ResetResponse
  /\ pc = "monitor"
  /\ youStepPosition = 0
  /\ totalStepsTaken = 0
  /\ pcmStepPosition = 0
  /\ isMoving
  /\ motorEnabled
  /\ currentStep # 0
  /\ pcmStepIndex # -1
  /\ pcmDirection # 0
  /\ logCount = LOG_BUFFER_SIZE

(***************************************************************************)
(* Properties of the ring indices and of a clear before a decode (SpecRing)*)
(***************************************************************************)

\* C34: in every reachable state, whatever the interleaving of appends
\* with clears, logHead = (logTail + logCount) mod LOG_BUFFER_SIZE,
\* logOverflow implies logCount = LOG_BUFFER_SIZE, and logOverflow false
\* implies logTail = 0.
C34_IndicesConsistent ==
  /\ logHead = (logTail + logCount) % LOG_BUFFER_SIZE
  /\ logOverflow => logCount = LOG_BUFFER_SIZE
  /\ ~logOverflow => logTail = 0

\* a log that was cleared and has wrapped again since, the oldest entry
\* away from slot 0
C34_Witness ==
  /\ clearSeq > 0
  /\ logOverflow
  /\ logTail # 0
  /\ logHead = logTail

\* the steps of the monitorPcmSignals call that follows a clear in the same
\* iteration of loop(), no edge having arrived since the clear
MonitorAfterClearStep ==
  /\ pc \in {"monitor", "decode"}
  /\ response = OkResponse
  /\ edges = clearSeq
  /\ edges' = edges

C36_MovingIsPowered ==
  /\ isMoving => (motorEnabled /\ stby = 1)
  /\ ~motorEnabled => motorOut = <<0, 0, 0, 0>>

\* youStepPosition and totalStepsTaken agree: as many ticks as the distance
\* at least, and of the same parity
CountersAgree ==
  /\ totalStepsTaken >= Abs(youStepPosition)
  /\ (totalStepsTaken - Abs(youStepPosition)) % 2 = 0

\* C37: every step other than a position reset (tick, stop, restart in
\* either direction) leaves (currentStep - youStepPosition) mod 4 unchanged,
\* and in every state totalStepsTaken >= |youStepPosition| with both of the
\* same parity.
C37_PositionTracksPhase ==
  [][ /\ ~ResetStep =>
           (currentStep' - youStepPosition' + 4 * MaxDriveSteps) % 4
             = (currentStep - youStepPosition + 4 * MaxDriveSteps) % 4
      /\ CountersAgree
      /\ CountersAgree'
    ]_vars

\* after a reset made away from phase 0, a forward move and a reverse move
\* that has passed the reset position
C37_Witness ==
  /\ youStepPosition < 0
  /\ totalStepsTaken > -youStepPosition
  /\ (currentStep - youStepPosition + 4 * MaxDriveSteps) % 4 # 0
  /\ isMoving

\* C38: in every reachable state currentStep is in 0..3 and stepDirection
\* is 1 or -1, whatever the arguments of the move requests (any integer
\* direction, any integer step count, zero and negative values included).
C38_PhaseInRange ==
  /\ currentStep \in 0..3
  /\ stepDirection \in {1, -1}

\* a continuous move asked with the most negative direction, stepped from
\* phase 0 down to phase 3
C38_Witness ==
  /\ moveReq.kind = "continuous"
  /\ moveReq.arg = -2147483647
  /\ moveReq.step0 = 0
  /\ moveReq.ticks = 1
  /\ currentStep = 3
  /\ stepDirection = -1

(***************************************************************************)
(* Properties of the reads of the idle test (SpecRace)                     *)
(***************************************************************************)

\* the step of monitorPcmSignals that completes the idle test
IdleTestStep == pc = "idletest" /\ pc' # "idletest"

\* C31: while every edge and every poll comes less than PCM_IDLE_TIMEOUT
\* after the edge before it (here: the whole run is shorter than the
\* timeout), the idle test of a poll leaves pcmDirection as it is, for
\* every interleaving of the ISR with the poll's reads of the clock and of
\* lastPcmChange.
C31_OnlyIdlenessClearsDirection ==
  [][ (IdleTestStep /\ now < PCM_IDLE_TIMEOUT) => pcmDirection' = pcmDirection ]_vars

(***************************************************************************)
(* Properties of the reads of a status poll (SpecPoll)                     *)
(***************************************************************************)

\* C32: with fewer entries between two polls than the log has slots (and
\* fewer than 10), whatever the ISR appends while handleStatus reads
\* logHead, the polls answered so far have returned the entries from the
\* first on, each once and in order, and every entry appended before the
\* last answered poll began is among them.
C32_PollAtomicUnderAppends ==
  response.kind = "status" =>
    /\ delivered = SeqRange(1, Len(delivered))
    /\ Len(delivered) >= response.upto

(***************************************************************************)
(* Properties of the 10-entry limit of a status poll (SpecCap)             *)
(***************************************************************************)

\* the step of handleStatus
StatusStep == pc = "client" /\ pc' = "monitor" /\ response'.kind = "status"

=============================================================================
